---- MODULE Spec2Model ----
(***************************************************************************)
(* Form & Function Calc Engine: the beam analysis of src/main.py           *)
(* (BeamAnalysis.perform_analysis and what it calls) and the catalog fetch *)
(* of src/grpc_client.py, as a state machine.                              *)
(*                                                                         *)
(* Numbers.  The program computes with Python floats.  The model computes  *)
(* with exact decimal rationals  n/d * 10^e  (a record [n, d, e], d > 0,   *)
(* gcd(n, d) = 1, neither n nor d a multiple of 10), operation by          *)
(* operation in the order of the source, so that every intermediate value  *)
(* fits TLC's 32-bit integers.  A record with d = 0 is not a number: it    *)
(* stands for a missing dictionary key (Missing) or for None (Null).       *)
(* round(x, k) is modelled as round-half-to-even of the exact value.       *)
(***************************************************************************)
EXTENDS Integers, Sequences, FiniteSets, TLC

VARIABLES
    analyzer,    \* the module's BeamAnalysis object: its fields E and material_strengths
    pc,          \* where the current analyze call is: idle, fetching, done
    request,     \* the CalculationRequest of the current call
    remote,      \* the remote catalog source in this call: not called, pending, silent, or its reply
    grpc_calls,  \* how many times this call has invoked get_beams_grpc
    beams,       \* what fetch_beams_from_api returned to this call
    beam_data,   \* the section perform_analysis resolved
    locals,      \* perform_analysis's unrounded max_moment, max_deflection, ...
    outcome,     \* what the call gives its caller: a CalculationResult or an HTTPException
    memo,        \* history: one earlier call (request, catalog reply, outcome)
    unit         \* one call of a method of the response calculator on its own: fn, args, ret

vars == <<analyzer, pc, request, remote, grpc_calls, beams, beam_data, locals, outcome, memo, unit>>

(***************************************************************************)
(* Arithmetic on decimal rationals                                         *)
(***************************************************************************)
Abs(x) == IF x < 0 THEN -x ELSE x

RECURSIVE GCD(_, _)
GCD(a, b) == IF b = 0 THEN a ELSE GCD(b, a % b)

RECURSIVE Pow10(_)
Pow10(k) == IF k <= 0 THEN 1 ELSE 10 * Pow10(k - 1)

\* n * 10^e with the factors of ten moved from n into the exponent
RECURSIVE StripNum(_, _, _)
StripNum(n, d, e) ==
    IF n # 0 /\ n % 10 = 0 THEN StripNum(n \div 10, d, e + 1) ELSE [n |-> n, d |-> d, e |-> e]

RECURSIVE StripDen(_, _, _)
StripDen(n, d, e) ==
    IF d % 10 = 0 THEN StripDen(n, d \div 10, e - 1) ELSE [n |-> n, d |-> d, e |-> e]

\* a record of n/d * 10^e, for d > 0: gcd(n, d) = 1, neither n nor d a
\* multiple of 10 (one value can have several such records: compare with Eq)
Norm(n, d, e) ==
    IF n = 0 THEN [n |-> 0, d |-> 1, e |-> 0]
    ELSE LET g == GCD(Abs(n), d)
             a == StripNum(n \div g, d \div g, e)
         IN  StripDen(a.n, a.d, a.e)

\* the number n * 10^e
Dec(n, e) == Norm(n, 1, e)

Num(n) == Dec(n, 0)

IsNum(x) == x.d > 0

Sign(x) == IF x.n > 0 THEN 1 ELSE IF x.n < 0 THEN -1 ELSE 0

Neg(x) == [n |-> -x.n, d |-> x.d, e |-> x.e]

AbsNum(x) == [n |-> Abs(x.n), d |-> x.d, e |-> x.e]

\* x * y, cancelling across before multiplying
Mul(x, y) ==
    IF x.n = 0 \/ y.n = 0 THEN Num(0)
    ELSE LET g1 == GCD(Abs(x.n), y.d)
             g2 == GCD(Abs(y.n), x.d)
         IN  Norm((x.n \div g1) * (y.n \div g2), (x.d \div g2) * (y.d \div g1), x.e + y.e)

\* 1 / x, for x # 0
Inv(x) == IF x.n > 0 THEN Norm(x.d, x.n, -x.e) ELSE Norm(-x.d, -x.n, -x.e)

\* x / y, for y # 0
Div(x, y) == Mul(x, Inv(y))

RECURSIVE Power(_, _)
Power(x, k) == IF k = 0 THEN Num(1) ELSE Mul(x, Power(x, k - 1))

\* q < 1 for q > 0
PosLessOne(q) ==
    IF q.e >= 10 THEN FALSE
    ELSE IF q.e <= -10 THEN TRUE
    ELSE IF q.e >= 0 THEN q.n <= (q.d - 1) \div Pow10(q.e)
    ELSE q.n \div Pow10(-q.e) < q.d

Less(x, y) ==
    IF Sign(x) # Sign(y) THEN Sign(x) < Sign(y)
    ELSE IF Sign(x) = 0 THEN FALSE
    ELSE IF Sign(x) > 0 THEN PosLessOne(Div(x, y))
    ELSE PosLessOne(Div(y, x))

Leq(x, y) == ~Less(y, x)

Eq(x, y) == ~Less(x, y) /\ ~Less(y, x)

\* x - y
Sub(x, y) ==
    LET m == IF x.e <= y.e THEN x.e ELSE y.e
    IN  Norm(x.n * Pow10(x.e - m) * y.d - y.n * Pow10(y.e - m) * x.d, x.d * y.d, m)

\* long division: quotient and remainder of (q * d + r) * 10^s by d
RECURSIVE LongDiv(_, _, _, _)
LongDiv(q, r, d, s) ==
    IF s <= 0 THEN [q |-> q, r |-> r]
    ELSE LongDiv(10 * q + ((10 * r) \div d), (10 * r) % d, d, s - 1)

\* Python's round(x, k): the multiple of 10^-k nearest to x, ties to even
Round(x, k) ==
    LET s  == x.e + k
        dd == IF s >= 0 THEN x.d ELSE x.d * Pow10(-s)
        qr == LongDiv(Abs(x.n) \div dd, Abs(x.n) % dd, dd, s)
        up == (2 * qr.r > dd) \/ (2 * qr.r = dd /\ qr.q % 2 = 1)
        m  == IF up THEN qr.q + 1 ELSE qr.q
    IN  IF x.n = 0 \/ s <= -10 THEN Num(0)
        ELSE IF x.d = 1 /\ s >= 0 THEN x
        ELSE Dec(IF x.n < 0 THEN -m ELSE m, -k)

(***************************************************************************)
(* Values of the program                                                   *)
(***************************************************************************)
\* a dictionary key that is absent, and the value None
Missing == [n |-> 0, d |-> 0, e |-> 0]

Null == [n |-> 1, d |-> 0, e |-> 0]

None == "<None>"

NoKey == "<no key>"

\* Python truthiness of an Optional[str]
Truthy(s) == s # None /\ s # ""

NoExc == [type |-> "", status |-> 0, prefix |-> "", msg |-> ""]

Exc(type, msg) == [type |-> type, status |-> 0, prefix |-> "", msg |-> msg]

HTTPException(status, prefix, msg) ==
    [type |-> "HTTPException", status |-> status, prefix |-> prefix, msg |-> msg]

Ok(v) == [exc |-> NoExc, val |-> v]

Raise(x) == [exc |-> x, val |-> Num(0)]

Beam(des, mass, iy, wy) ==
    [section_designation |-> des, mass_per_metre |-> mass,
     second_moment_of_area_axis_y |-> iy, elastic_modulus_axis_y |-> wy]

NoBeam == Beam(NoKey, Missing, Missing, Missing)

\* BeamAnalysis.__init__
YoungsModulus == 210000

MaterialStrengths == [g \in {"S235", "S275", "S355", "S460"} |->
    CASE g = "S235" -> 235 [] g = "S275" -> 275 [] g = "S355" -> 355 [] g = "S460" -> 460]

DefaultStrength == 355

NewBeamAnalysis == [E |-> YoungsModulus, material_strengths |-> MaterialStrengths]

\* BeamAnalysis.get_embedded_beam_data (the four properties the analysis reads)
EmbeddedBeamData ==
    << Beam("UB406x178x74", Dec(746, -1), Num(27400), Num(1330)),
       Beam("UB406x178x67", Dec(671, -1), Num(23500), Num(1160)) >>

(***************************************************************************)
(* Response calculator                                                     *)
(***************************************************************************)
\* mutant: the uniform moment taken as wL/8
MomentFormulaLinear(load, span, load_type) ==
    IF load_type = "point" THEN Div(Mul(load, span), Num(4)) ELSE Div(Mul(load, span), Num(8))

\* mutant: a load type that is not uniform is taken as point
MomentFormulaElsePoint(load, span, load_type) ==
    IF load_type = "uniform" THEN Div(Mul(load, Power(span, 2)), Num(8))
    ELSE Div(Mul(load, span), Num(4))

MomentFormula(load, span, load_type) ==
    IF load_type = "uniform" THEN Div(Mul(load, Power(span, 2)), Num(8))
    ELSE IF load_type = "point" THEN Div(Mul(load, span), Num(4))
    ELSE Div(Mul(load, Power(span, 2)), Num(8))

\* the check of the computed value that ends calculate_moment and calculate_shear
Positive(value, message) ==
    IF Leq(value, Num(0)) THEN Raise(Exc("ValueError", message)) ELSE Ok(value)

\* mutant: only the load is checked on entry
CalculateMomentLoadOnly(load, span, load_type) ==
    IF Leq(load, Num(0))
    THEN Raise(Exc("ValueError", "Load and span must be positive values"))
    ELSE Positive(MomentFormula(load, span, load_type), "Invalid moment calculation result")

CalculateMoment(load, span, load_type) ==
    IF Leq(load, Num(0)) \/ Leq(span, Num(0))
    THEN Raise(Exc("ValueError", "Load and span must be positive values"))
    ELSE Positive(MomentFormula(load, span, load_type), "Invalid moment calculation result")

CalculateShear(load, load_type) ==
    IF Leq(load, Num(0))
    THEN Raise(Exc("ValueError", "Load must be a positive value"))
    ELSE Positive(Div(load, Num(2)), "Invalid shear calculation result")

\* 5wL^4 / (384EI), w in N/mm, L in mm
UniformDeflection(w, L, EI) == Div(Mul(Mul(Num(5), w), Power(L, 4)), Mul(Num(384), EI))

\* PL^3 / (48EI), P in N, L in mm
PointDeflection(P, L, EI) == Div(Mul(P, Power(L, 3)), Mul(Num(48), EI))

\* the formula calculate_deflection picks, with I_mm4 = I * 10000
DeflectionFormula(self, load, span, I_mm4, load_type) ==
    IF load_type = "uniform"
    THEN UniformDeflection(Div(Mul(load, Num(1000)), Mul(span, Num(1000))),
                           Mul(span, Num(1000)), Mul(Num(self.E), I_mm4))
    ELSE IF load_type = "point"
    THEN PointDeflection(Mul(load, Num(1000)), Mul(span, Num(1000)),
                         Mul(Num(self.E), I_mm4))
    ELSE UniformDeflection(Div(Mul(load, Num(1000)), Mul(span, Num(1000))),
                           Mul(span, Num(1000)), Mul(Num(self.E), I_mm4))

CalculateDeflection(self, load, span, I, load_type) ==
    IF Leq(load, Num(0)) \/ Leq(span, Num(0))
    THEN Raise(Exc("ValueError", "Load, span, and moment of inertia must be positive values"))
    ELSE IF ~IsNum(I)
    THEN Raise(Exc("TypeError", "'<=' not supported between instances of 'NoneType' and 'int'"))
    ELSE IF Leq(I, Num(0))
    THEN Raise(Exc("ValueError", "Load, span, and moment of inertia must be positive values"))
    ELSE Ok(AbsNum(DeflectionFormula(self, load, span, Mul(I, Num(10000)), load_type)))

\* self.material_strengths.get(material_grade, 355)
StrengthOf(self, material_grade) ==
    IF material_grade \in DOMAIN self.material_strengths
    THEN self.material_strengths[material_grade]
    ELSE DefaultStrength

\* mutant: the allowable stress is the yield strength, the safety factor unused
CalculateStressUtilizationNoSafetyFactor(self, moment, elastic_modulus, material_grade, safety_factor) ==
    IF ~IsNum(elastic_modulus)
    THEN Raise(Exc("TypeError", "unsupported operand type(s) for *: 'NoneType' and 'int'"))
    ELSE IF elastic_modulus.n = 0 \/ safety_factor.n = 0
    THEN Raise(Exc("ZeroDivisionError", "float division by zero"))
    ELSE Ok(Div(Div(Mul(moment, Dec(1, 6)), Mul(elastic_modulus, Num(1000))),
                Num(StrengthOf(self, material_grade))))

CalculateStressUtilization(self, moment, elastic_modulus, material_grade, safety_factor) ==
    IF ~IsNum(elastic_modulus)
    THEN Raise(Exc("TypeError", "unsupported operand type(s) for *: 'NoneType' and 'int'"))
    ELSE IF elastic_modulus.n = 0 \/ safety_factor.n = 0
    THEN Raise(Exc("ZeroDivisionError", "float division by zero"))
    ELSE Ok(Div(Div(Mul(moment, Dec(1, 6)), Mul(elastic_modulus, Num(1000))),
                Div(Num(StrengthOf(self, material_grade)), safety_factor)))

(***************************************************************************)
(* Catalog provider                                                        *)
(***************************************************************************)
\* what the remote source can do with a GetBeams call
ReplyKinds == {"ok", "rpc_error", "connect_error", "not_list"}

Reply(kind, data) == [kind |-> kind, data |-> data]

NotCalled == Reply("not_called", <<>>)

Pending == Reply("pending", <<>>)

Silent == Reply("silent", <<>>)

\* grpc_client.get_beams_grpc: the list of beams, or the exception of connect()
\* or of stub.GetBeams
GetBeamsGrpc(reply) ==
    IF reply.kind = "rpc_error" THEN Raise(Exc("RpcError", "gRPC error getting beams"))
    ELSE IF reply.kind = "connect_error"
    THEN Raise(Exc("Exception", "Failed to connect to gRPC server"))
    ELSE Ok(reply.data)

\* mutant: the except clause lets what get_beams_grpc raised through
ValidatedReraises(reply, got) ==
    IF got.exc # NoExc THEN Raise(got.exc)
    ELSE IF \/ reply.kind = "not_list"
            \/ \E i \in DOMAIN got.val : got.val[i].section_designation = NoKey
    THEN Ok(EmbeddedBeamData)
    ELSE Ok(got.val)

\* the validation of fetch_beams_from_api and its except clause: whatever
\* get_beams_grpc raised, and whatever fails the validation, gives the embedded table
Validated(reply, got) ==
    IF \/ got.exc # NoExc
       \/ reply.kind = "not_list"
       \/ \E i \in DOMAIN got.val : got.val[i].section_designation = NoKey
    THEN Ok(EmbeddedBeamData)
    ELSE Ok(got.val)

\* BeamAnalysis.fetch_beams_from_api
FetchBeamsFromApi(reply) == Validated(reply, GetBeamsGrpc(reply))

RECURSIVE FirstWith(_, _, _)
FirstWith(bs, i, designation) ==
    IF i > Len(bs) THEN NoBeam
    ELSE IF bs[i].section_designation = designation THEN bs[i]
    ELSE FirstWith(bs, i + 1, designation)

\* mutant: the designation is not compared
FindBeamFirst(bs, designation) == IF bs = <<>> THEN NoBeam ELSE bs[1]

\* BeamAnalysis.find_beam, after its fetch
FindBeam(bs, designation) == FirstWith(bs, 1, designation)

(***************************************************************************)
(* Optimal-section search                                                  *)
(***************************************************************************)
DeflectionLimit(span_length) == Div(Mul(span_length, Num(1000)), Num(250))

Unsuitable(x) == [exc |-> x, suitable |-> FALSE]

\* mutant: a candidate whose deflection cannot be computed is skipped
CheckDeflectionSkips(req, u, d) ==
    IF d.exc # NoExc THEN [exc |-> NoExc, suitable |-> FALSE]
    ELSE [exc |-> NoExc,
          suitable |-> Leq(u.val, Num(1)) /\ Leq(d.val, DeflectionLimit(req.span_length))]

\* mutant: the stress utilization is computed and not compared with 1.0
CheckDeflectionOnly(req, u, d) ==
    IF d.exc # NoExc THEN Unsuitable(d.exc)
    ELSE [exc |-> NoExc, suitable |-> Leq(d.val, DeflectionLimit(req.span_length))]

\* mutant: the deflection is computed and not compared with the limit
CheckDeflectionNoLimit(req, u, d) ==
    IF d.exc # NoExc THEN Unsuitable(d.exc)
    ELSE [exc |-> NoExc, suitable |-> Leq(u.val, Num(1))]

\* one pass of the loop of find_optimal_beam, from the deflection on
CheckDeflection(req, u, d) ==
    IF d.exc # NoExc THEN Unsuitable(d.exc)
    ELSE [exc |-> NoExc,
          suitable |-> Leq(u.val, Num(1)) /\ Leq(d.val, DeflectionLimit(req.span_length))]

\* one pass of the loop of find_optimal_beam, from the stress utilization on
CheckUtilization(self, beam, req, u) ==
    IF u.exc # NoExc THEN Unsuitable(u.exc)
    ELSE IF beam.second_moment_of_area_axis_y = Missing
    THEN Unsuitable(Exc("KeyError", "'second_moment_of_area_axis_y'"))
    ELSE CheckDeflection(req, u,
             CalculateDeflection(self, req.applied_load, req.span_length,
                                 beam.second_moment_of_area_axis_y, req.load_type))

\* one pass of the loop of find_optimal_beam, from the moment on
CheckMoment(self, beam, req, m) ==
    IF m.exc # NoExc THEN Unsuitable(m.exc)
    ELSE IF beam.elastic_modulus_axis_y = Missing
    THEN Unsuitable(Exc("KeyError", "'elastic_modulus_axis_y'"))
    ELSE CheckUtilization(self, beam, req,
             CalculateStressUtilization(self, m.val, beam.elastic_modulus_axis_y,
                                        req.material_grade, req.safety_factor))

\* one pass of the loop of find_optimal_beam: the exception it raises, or
\* whether the beam is appended to suitable_beams
Candidate(self, beam, req) ==
    CheckMoment(self, beam, req,
                CalculateMoment(req.applied_load, req.span_length, req.load_type))

\* the loop of find_optimal_beam from beam i on: the first exception, or suitable_beams
RECURSIVE SuitableBeams(_, _, _, _, _)
RECURSIVE Collect(_, _, _, _, _, _)
Collect(self, bs, i, req, acc, c) ==
    IF c.exc # NoExc THEN Raise(c.exc)
    ELSE SuitableBeams(self, bs, i + 1, req, IF c.suitable THEN Append(acc, bs[i]) ELSE acc)

SuitableBeams(self, bs, i, req, acc) ==
    IF i > Len(bs) THEN Ok(acc)
    ELSE Collect(self, bs, i, req, acc, Candidate(self, bs[i], req))

\* list.sort(key = mass): stable, ascending
RECURSIVE Insert(_, _)
Insert(sorted, b) ==
    IF sorted = <<>> THEN <<b>>
    ELSE IF Less(b.mass_per_metre, Head(sorted).mass_per_metre) THEN <<b>> \o sorted
    ELSE <<Head(sorted)>> \o Insert(Tail(sorted), b)

RECURSIVE SortByMass(_)
SortByMass(bs) ==
    IF bs = <<>> THEN <<>> ELSE Insert(SortByMass(SubSeq(bs, 1, Len(bs) - 1)), bs[Len(bs)])

\* mutant: a sort that is not stable: of equal masses the last appended comes first
MostEconomicalLastOfEqual(s) ==
    IF s.exc # NoExc THEN [exc |-> s.exc, val |-> NoBeam]
    ELSE IF s.val = <<>>
    THEN [exc |-> HTTPException(400, "", "No suitable beam found for the given loading"),
          val |-> NoBeam]
    ELSE [exc |-> NoExc,
          val |-> SortByMass([i \in 1..Len(s.val) |-> s.val[Len(s.val) + 1 - i]])[1]]

\* mutant: suitable_beams is not sorted
MostEconomicalUnsorted(s) ==
    IF s.exc # NoExc THEN [exc |-> s.exc, val |-> NoBeam]
    ELSE IF s.val = <<>>
    THEN [exc |-> HTTPException(400, "", "No suitable beam found for the given loading"),
          val |-> NoBeam]
    ELSE [exc |-> NoExc, val |-> s.val[1]]

\* the end of find_optimal_beam: the lightest of suitable_beams
MostEconomical(s) ==
    IF s.exc # NoExc THEN [exc |-> s.exc, val |-> NoBeam]
    ELSE IF s.val = <<>>
    THEN [exc |-> HTTPException(400, "", "No suitable beam found for the given loading"),
          val |-> NoBeam]
    ELSE [exc |-> NoExc, val |-> SortByMass(s.val)[1]]

\* BeamAnalysis.find_optimal_beam, after its fetch
FindOptimalBeam(self, bs, req) == MostEconomical(SuitableBeams(self, bs, 1, req, <<>>))

(***************************************************************************)
(* Analysis orchestrator                                                   *)
(***************************************************************************)
Message(text, args) == [text |-> text, args |-> args]

PassMessage == Message("PASS: Beam is adequate for the applied loading.", <<>>)

\* mutant: PASS is decided on the deflection alone
GenerateRecommendationsPassOnDeflection(stress_util, deflection_ok, actual_deflection, deflection_limit) ==
    LET utilization ==
            IF Less(Num(1), stress_util)
            THEN <<Message("CRITICAL: Stress utilization ({:.2f}) exceeds limit. Consider larger beam section.",
                           <<Round(stress_util, 2)>>)>>
            ELSE IF Less(Dec(9, -1), stress_util)
            THEN <<Message("HIGH: Stress utilization ({:.2f}) is high. Consider reviewing design.",
                           <<Round(stress_util, 2)>>)>>
            ELSE IF Less(stress_util, Dec(5, -1))
            THEN <<Message("LOW: Stress utilization ({:.2f}) is low. Consider smaller section for economy.",
                           <<Round(stress_util, 2)>>)>>
            ELSE <<>>
        deflection ==
            IF ~deflection_ok
            THEN <<Message("CRITICAL: Deflection ({:.1f}mm) exceeds limit ({:.1f}mm).",
                           <<Round(actual_deflection, 1), Round(deflection_limit, 1)>>)>>
            ELSE IF Less(Mul(deflection_limit, Dec(8, -1)), actual_deflection)
            THEN <<Message("HIGH: Deflection approaches serviceability limit.", <<>>)>>
            ELSE <<>>
        pass ==
            IF deflection_ok THEN <<PassMessage>> ELSE <<>>
    IN  utilization \o deflection \o pass

\* mutant: the HIGH band of the utilization starts at 0.9 itself
GenerateRecommendationsHighFrom(stress_util, deflection_ok, actual_deflection, deflection_limit) ==
    LET utilization ==
            IF Less(Num(1), stress_util)
            THEN <<Message("CRITICAL: Stress utilization ({:.2f}) exceeds limit. Consider larger beam section.",
                           <<Round(stress_util, 2)>>)>>
            ELSE IF Leq(Dec(9, -1), stress_util)
            THEN <<Message("HIGH: Stress utilization ({:.2f}) is high. Consider reviewing design.",
                           <<Round(stress_util, 2)>>)>>
            ELSE IF Less(stress_util, Dec(5, -1))
            THEN <<Message("LOW: Stress utilization ({:.2f}) is low. Consider smaller section for economy.",
                           <<Round(stress_util, 2)>>)>>
            ELSE <<>>
        deflection ==
            IF ~deflection_ok
            THEN <<Message("CRITICAL: Deflection ({:.1f}mm) exceeds limit ({:.1f}mm).",
                           <<Round(actual_deflection, 1), Round(deflection_limit, 1)>>)>>
            ELSE IF Less(Mul(deflection_limit, Dec(8, -1)), actual_deflection)
            THEN <<Message("HIGH: Deflection approaches serviceability limit.", <<>>)>>
            ELSE <<>>
        pass ==
            IF Leq(stress_util, Num(1)) /\ deflection_ok THEN <<PassMessage>> ELSE <<>>
    IN  utilization \o deflection \o pass

\* mutant: the verdict is put first and the utilization message last
GenerateRecommendationsVerdictFirst(stress_util, deflection_ok, actual_deflection, deflection_limit) ==
    LET utilization ==
            IF Less(Num(1), stress_util)
            THEN <<Message("CRITICAL: Stress utilization ({:.2f}) exceeds limit. Consider larger beam section.",
                           <<Round(stress_util, 2)>>)>>
            ELSE IF Less(Dec(9, -1), stress_util)
            THEN <<Message("HIGH: Stress utilization ({:.2f}) is high. Consider reviewing design.",
                           <<Round(stress_util, 2)>>)>>
            ELSE IF Less(stress_util, Dec(5, -1))
            THEN <<Message("LOW: Stress utilization ({:.2f}) is low. Consider smaller section for economy.",
                           <<Round(stress_util, 2)>>)>>
            ELSE <<>>
        deflection ==
            IF ~deflection_ok
            THEN <<Message("CRITICAL: Deflection ({:.1f}mm) exceeds limit ({:.1f}mm).",
                           <<Round(actual_deflection, 1), Round(deflection_limit, 1)>>)>>
            ELSE IF Less(Mul(deflection_limit, Dec(8, -1)), actual_deflection)
            THEN <<Message("HIGH: Deflection approaches serviceability limit.", <<>>)>>
            ELSE <<>>
        pass ==
            IF Leq(stress_util, Num(1)) /\ deflection_ok THEN <<PassMessage>> ELSE <<>>
    IN  pass \o deflection \o utilization

\* BeamAnalysis.generate_recommendations
GenerateRecommendations(stress_util, deflection_ok, actual_deflection, deflection_limit) ==
    LET utilization ==
            IF Less(Num(1), stress_util)
            THEN <<Message("CRITICAL: Stress utilization ({:.2f}) exceeds limit. Consider larger beam section.",
                           <<Round(stress_util, 2)>>)>>
            ELSE IF Less(Dec(9, -1), stress_util)
            THEN <<Message("HIGH: Stress utilization ({:.2f}) is high. Consider reviewing design.",
                           <<Round(stress_util, 2)>>)>>
            ELSE IF Less(stress_util, Dec(5, -1))
            THEN <<Message("LOW: Stress utilization ({:.2f}) is low. Consider smaller section for economy.",
                           <<Round(stress_util, 2)>>)>>
            ELSE <<>>
        deflection ==
            IF ~deflection_ok
            THEN <<Message("CRITICAL: Deflection ({:.1f}mm) exceeds limit ({:.1f}mm).",
                           <<Round(actual_deflection, 1), Round(deflection_limit, 1)>>)>>
            ELSE IF Less(Mul(deflection_limit, Dec(8, -1)), actual_deflection)
            THEN <<Message("HIGH: Deflection approaches serviceability limit.", <<>>)>>
            ELSE <<>>
        pass ==
            IF Leq(stress_util, Num(1)) /\ deflection_ok THEN <<PassMessage>> ELSE <<>>
    IN  utilization \o deflection \o pass

\* mutant: the safety factor is not validated
ValidateRequestNoSafetyFactor(req) ==
    IF Leq(req.applied_load, Num(0))
    THEN Exc("ValueError", "Applied load must be greater than 0")
    ELSE IF Leq(req.span_length, Num(0))
    THEN Exc("ValueError", "Span length must be greater than 0")
    ELSE NoExc

\* the validation that opens perform_analysis
ValidateRequest(req) ==
    IF Leq(req.applied_load, Num(0))
    THEN Exc("ValueError", "Applied load must be greater than 0")
    ELSE IF Leq(req.span_length, Num(0))
    THEN Exc("ValueError", "Span length must be greater than 0")
    ELSE IF Leq(req.safety_factor, Num(0))
    THEN Exc("ValueError", "Safety factor must be greater than 0")
    ELSE NoExc

\* the except clauses of perform_analysis: the HTTPException the caller gets
HandleException(x) ==
    IF x.type = "HTTPException" THEN x
    ELSE IF x.type = "ValueError" THEN HTTPException(400, "Invalid input: ", x.msg)
    ELSE IF x.type = "KeyError" THEN HTTPException(500, "Missing beam property: ", x.msg)
    ELSE HTTPException(500, "Analysis calculation failed: ", x.msg)

\* the check of required_properties: the first one absent or None
MissingProperty(beam) ==
    IF ~IsNum(beam.second_moment_of_area_axis_y) THEN "second_moment_of_area_axis_y"
    ELSE IF ~IsNum(beam.elastic_modulus_axis_y) THEN "elastic_modulus_axis_y"
    ELSE IF beam.section_designation \in {NoKey, None} THEN "section_designation"
    ELSE ""

NoLocals ==
    [max_moment |-> Missing, max_shear |-> Missing, max_deflection |-> Missing,
     stress_utilization |-> Missing, deflection_limit |-> Missing]

NoResult ==
    [beam |-> NoBeam, applied_load |-> Missing, span_length |-> Missing,
     max_moment |-> Missing, max_shear |-> Missing, max_deflection |-> Missing,
     stress_utilization |-> Missing, deflection_limit_check |-> FALSE,
     is_adequate |-> FALSE, safety_margin |-> Missing, recommendations |-> <<>>]

\* mutant: or for and
IsAdequateEither(stress_utilization, deflection_ok) ==
    Leq(stress_utilization, Num(1)) \/ deflection_ok

\* is_adequate of perform_analysis
IsAdequate(stress_utilization, deflection_ok) ==
    Leq(stress_utilization, Num(1)) /\ deflection_ok

\* mutant: the margin is not cut off at a utilization of 1.0
SafetyMarginUncut(stress_utilization) == Mul(Sub(Num(1), stress_utilization), Num(100))

\* safety_margin of perform_analysis
SafetyMargin(stress_utilization) ==
    IF Less(stress_utilization, Num(1))
    THEN Mul(Sub(Num(1), stress_utilization), Num(100))
    ELSE Num(0)

CalcFailed(x) == [exc |-> x, locals |-> NoLocals, result |-> NoResult]

\* the end of perform_analysis: the limit checks and the CalculationResult
Assemble(req, beam, max_moment, max_shear, max_deflection, stress_utilization, deflection_limit, deflection_ok) ==
    [exc |-> NoExc,
     locals |-> [max_moment |-> max_moment, max_shear |-> max_shear,
                 max_deflection |-> max_deflection,
                 stress_utilization |-> stress_utilization,
                 deflection_limit |-> deflection_limit],
     result |-> [beam |-> beam,
                 applied_load |-> req.applied_load,
                 span_length |-> req.span_length,
                 max_moment |-> Round(max_moment, 2),
                 max_shear |-> Round(max_shear, 2),
                 max_deflection |-> Round(max_deflection, 2),
                 stress_utilization |-> Round(stress_utilization, 3),
                 deflection_limit_check |-> deflection_ok,
                 is_adequate |-> IsAdequate(stress_utilization, deflection_ok),
                 safety_margin |-> Round(SafetyMargin(stress_utilization), 1),
                 recommendations |->
                     GenerateRecommendations(stress_utilization, deflection_ok,
                                             max_deflection, deflection_limit)]]

\* perform_analysis from deflection_limit on
CheckLimits(req, beam, max_moment, max_shear, max_deflection, stress_utilization, deflection_limit) ==
    Assemble(req, beam, max_moment, max_shear, max_deflection, stress_utilization,
             deflection_limit, Leq(max_deflection, deflection_limit))

\* perform_analysis from the stress utilization on
WithUtilization(req, beam, max_moment, max_shear, max_deflection, u) ==
    IF u.exc # NoExc THEN CalcFailed(u.exc)
    ELSE CheckLimits(req, beam, max_moment, max_shear, max_deflection, u.val,
                     DeflectionLimit(req.span_length))

\* perform_analysis from the structural responses on
WithResponses(self, req, beam, m, v, d) ==
    IF m.exc # NoExc THEN CalcFailed(m.exc)
    ELSE IF v.exc # NoExc THEN CalcFailed(v.exc)
    ELSE IF d.exc # NoExc THEN CalcFailed(d.exc)
    ELSE WithUtilization(req, beam, m.val, v.val, d.val,
             CalculateStressUtilization(self, m.val, beam.elastic_modulus_axis_y,
                                        req.material_grade, req.safety_factor))

\* perform_analysis from the resolved beam on: [exc, locals, result]
Calculate(self, req, beam) ==
    IF MissingProperty(beam) # ""
    THEN CalcFailed(Exc("ValueError",
                        "Beam data missing required property: " \o MissingProperty(beam)))
    ELSE WithResponses(self, req, beam,
             CalculateMoment(req.applied_load, req.span_length, req.load_type),
             CalculateShear(req.applied_load, req.load_type),
             CalculateDeflection(self, req.applied_load, req.span_length,
                                 beam.second_moment_of_area_axis_y, req.load_type))

\* the beam find_beam returned, or the 404 of perform_analysis
Found(req, found) ==
    IF found = NoBeam
    THEN [exc |-> HTTPException(404, "", "Beam " \o req.beam_designation \o " not found"),
          val |-> NoBeam]
    ELSE [exc |-> NoExc, val |-> found]

\* the section resolution of perform_analysis on the fetched catalog: [exc, val]
Resolve(self, req, bs) ==
    IF Truthy(req.beam_designation)
    THEN Found(req, FindBeam(bs, req.beam_designation))
    ELSE FindOptimalBeam(self, bs, req)

Returned(result) == [returned |-> TRUE, error |-> NoExc, result |-> result]

Failed(x) == [returned |-> FALSE, error |-> HandleException(x), result |-> NoResult]

NoOutcome == [returned |-> FALSE, error |-> NoExc, result |-> NoResult]

(***************************************************************************)
(* Inputs                                                                  *)
(***************************************************************************)
MaxCatalog == 2

\* sections a remote catalog is made of: the two of the embedded table, a
\* section whose utilization under 32 kN over 6 m is just above 1, a light
\* section of small stiffness, and records that break the Section invariant
\* (fetch_beams_from_api and perform_analysis take what get_beams_grpc returns
\* as a value still to be validated: a zero, a null, an absent key)
SectionPool ==
    { EmbeddedBeamData[1],
      EmbeddedBeamData[2],
      Beam("X649", Dec(671, -1), Num(20000), Num(649)),
      Beam("SLENDER", Num(30), Num(2200), Num(1330)),
      Beam("ZEROI", Num(10), Num(0), Num(100)),
      Beam("NOW", Num(12), Num(27400), Missing),
      Beam("NULLI", Num(14), Null, Num(1330)) }

Catalogs == UNION { [1..k -> SectionPool] : k \in 0..MaxCatalog }

\* lists with an entry that has no section_designation, alone and after a section
Undesignated ==
    { << Beam(NoKey, Num(16), Num(27400), Num(1330)) >>,
      << EmbeddedBeamData[2], Beam(NoKey, Num(16), Num(27400), Num(1330)) >> }

\* a protobuf SteelBeam with no field set, as _proto_beam_to_dict renders it
UnsetBeam == Beam("", Num(0), Num(0), Num(0))

\* lists with such an entry, alone and after a section
Defaulted == { << UnsetBeam >>, << EmbeddedBeamData[1], UnsetBeam >> }

Replies ==
    { Reply("ok", c) : c \in Catalogs \cup Undesignated \cup Defaulted }
    \cup { Reply(k, <<>>) : k \in ReplyKinds \ {"ok"} }

Request(designation, load, span, load_type, safety_factor, grade) ==
    [beam_designation |-> designation, applied_load |-> load, span_length |-> span,
     load_type |-> load_type, safety_factor |-> safety_factor, material_grade |-> grade]

Designations == {None, "", "UB406x178x74", "X649", "SLENDER", "NOW"}

Loads == {Num(0), Num(10), Num(32), Num(100)}

Spans == {Num(0), Num(6)}

SafetyFactors == {Num(0), Dec(16, -1)}

LoadTypes == {"uniform", "point", "distributed"}

Grades == {"S355", "S275", "S999"}

Requests ==
    { Request(des, load, span, lt, sf, g) :
        des \in Designations, load \in Loads, span \in Spans, lt \in LoadTypes,
        sf \in SafetyFactors, g \in Grades }

NoRequest == Request(None, Missing, Missing, "", Missing, "")

NoMemo == [request |-> NoRequest, beams |-> <<>>, outcome |-> NoOutcome]

\* a method of the analyzer called on its own: not yet returned, or no call at all
NoRet == [exc |-> NoExc, val |-> Missing]

UnitCall(fn, args) == [fn |-> fn, args |-> args, returned |-> FALSE, ret |-> NoRet]

NoUnit == UnitCall("", <<>>)

(***************************************************************************)
(* The state machine: one analyze call at a time (the handler analyze_beam *)
(* calls perform_analysis synchronously)                                   *)
(***************************************************************************)
Init ==
    /\ analyzer = NewBeamAnalysis
    /\ pc = "idle"
    /\ request = NoRequest
    /\ remote = NotCalled
    /\ grpc_calls = 0
    /\ beams = <<>>
    /\ beam_data = NoBeam
    /\ locals = NoLocals
    /\ outcome = NoOutcome
    /\ memo = NoMemo
    /\ unit = NoUnit

\* mutant: the strength of the grade is taken out of material_strengths (pop for get)
AnalyzerAfterPop(self, req) ==
    [self EXCEPT !.material_strengths =
        [g \in DOMAIN self.material_strengths \ {req.material_grade} |->
            self.material_strengths[g]]]

\* perform_analysis writes no field of self
AnalyzerAfter(self, req) == self

\* mutant: the section is resolved before the request is validated
AnalyzeFetchFirst(req, source) ==
    /\ pc = "idle"
    /\ request' = req
    /\ pc' = "fetching"
    /\ outcome' = NoOutcome
    /\ remote' = source
    /\ grpc_calls' = grpc_calls + 1
    /\ UNCHANGED <<analyzer, beams, beam_data, locals, memo, unit>>

\* perform_analysis up to the call of get_beams_grpc made by find_beam or
\* find_optimal_beam; the remote source will answer (Pending) or never does (Silent)
Analyze(req, source) ==
    /\ pc = "idle"
    /\ request' = req
    /\ LET x == ValidateRequest(req)
       IN  IF x # NoExc
           THEN /\ pc' = "done"
                /\ outcome' = Failed(x)
                /\ remote' = NotCalled
                /\ grpc_calls' = 0
           ELSE /\ pc' = "fetching"
                /\ outcome' = NoOutcome
                /\ remote' = source
                /\ grpc_calls' = grpc_calls + 1
    /\ UNCHANGED <<analyzer, beams, beam_data, locals, memo, unit>>

\* the call ends with exception x
Aborted(bs, x) ==
    [beams |-> bs, beam_data |-> NoBeam, locals |-> NoLocals, outcome |-> Failed(x)]

AfterCalculate(bs, beam, c) ==
    [beams |-> bs, beam_data |-> beam, locals |-> c.locals,
     outcome |-> IF c.exc # NoExc THEN Failed(c.exc) ELSE Returned(c.result)]

AfterResolve(self, req, bs, r) ==
    IF r.exc # NoExc THEN Aborted(bs, r.exc)
    ELSE AfterCalculate(bs, r.val, Calculate(self, req, r.val))

AfterFetch(self, req, f) ==
    IF f.exc # NoExc THEN Aborted(<<>>, f.exc)
    ELSE AfterResolve(self, req, f.val, Resolve(self, req, f.val))

\* perform_analysis from the return of get_beams_grpc to its own
RunAnalysis(self, req, reply) == AfterFetch(self, req, FetchBeamsFromApi(reply))

Commit(reply, a) ==
    /\ remote' = reply
    /\ pc' = "done"
    /\ analyzer' = AnalyzerAfter(analyzer, request)
    /\ beams' = a.beams
    /\ beam_data' = a.beam_data
    /\ locals' = a.locals
    /\ outcome' = a.outcome
    /\ UNCHANGED <<request, grpc_calls, memo, unit>>

\* the rest of perform_analysis once get_beams_grpc has returned or raised
FinishAnalysis(reply) ==
    \E a \in {RunAnalysis(analyzer, request, reply)} : Commit(reply, a)

\* mutant: a failed call of get_beams_grpc is made again
GrpcReturnRetry(reply) ==
    /\ pc = "fetching"
    /\ remote = Pending
    /\ IF reply.kind # "ok" /\ grpc_calls < 2
       THEN /\ grpc_calls' = grpc_calls + 1
            /\ UNCHANGED <<analyzer, pc, request, remote, beams, beam_data, locals,
                           outcome, memo, unit>>
       ELSE FinishAnalysis(reply)

\* stub.GetBeams returns or raises, and the call runs to its end
GrpcReturn(reply) ==
    /\ pc = "fetching"
    /\ remote = Pending
    /\ FinishAnalysis(reply)

\* the call is over: its locals are gone
Return ==
    /\ pc = "done"
    /\ pc' = "idle"
    /\ request' = NoRequest
    /\ remote' = NotCalled
    /\ grpc_calls' = 0
    /\ beams' = <<>>
    /\ beam_data' = NoBeam
    /\ locals' = NoLocals
    /\ outcome' = NoOutcome
    /\ UNCHANGED <<analyzer, memo, unit>>

Next ==
    \/ \E req \in Requests, source \in {Pending, Silent} : Analyze(req, source)
    \/ \E reply \in Replies : GrpcReturn(reply)
    \/ Return

Spec == Init /\ [][Next]_vars

(***************************************************************************)
(* Two calls compared: the history variable memo keeps one finished call,  *)
(* and every later call is compared with it                                *)
(***************************************************************************)
IdemRequests ==
    { Request(des, load, Num(6), lt, Dec(16, -1), g) :
        des \in {None, "UB406x178x74"}, load \in {Num(0), Num(10), Num(100)},
        lt \in {"uniform", "point"}, g \in {"S355", "S275"} }

IdemReplies ==
    { Reply("ok", <<>>), Reply("ok", EmbeddedBeamData), Reply("rpc_error", <<>>),
      Reply("ok", << Beam("SLENDER", Num(30), Num(2200), Num(1330)),
                     EmbeddedBeamData[2] >>) }

\* the finished call is remembered: its request, the catalog it was given, its outcome
Observe ==
    /\ pc = "done"
    /\ memo = NoMemo
    /\ memo' = [request |-> request, beams |-> beams, outcome |-> outcome]
    /\ UNCHANGED <<analyzer, pc, request, remote, grpc_calls, beams, beam_data, locals, outcome, unit>>

NextIdem ==
    \/ \E req \in IdemRequests : Analyze(req, Pending)
    \/ \E reply \in IdemReplies : GrpcReturn(reply)
    \/ Return
    \/ Observe

SpecIdem == Init /\ [][NextIdem]_vars

(***************************************************************************)
(* The methods of the response calculator and the recommendation generator *)
(* called on their own, each on arguments drawn from small sets            *)
(***************************************************************************)
UnitLoads == {Num(-2), Num(0), Num(10), Dec(25, -1), Num(100)}

UnitSpans == {Num(-1), Num(0), Num(1), Num(6), Dec(45, -1)}

UnitInertias == {Num(0), Num(2340), Num(27400)}

UnitMoments == {Num(15), Num(45), Num(144)}

UnitModuli == {Num(649), Num(1330)}

UnitSafetyFactors == {Dec(16, -1), Num(2)}

UnitUtilizations ==
    {Dec(3, -1), Dec(5, -1), Dec(7, -1), Dec(9, -1), Dec(95, -2), Num(1), Dec(105, -2), Num(2)}

UnitDeflections == {Dec(49, -2), Num(20), Num(24), Num(30)}

UnitLimits == {Num(16), Num(24)}

MomentCalls ==
    { UnitCall("calculate_moment", <<load, span, lt>>) :
        load \in UnitLoads, span \in UnitSpans, lt \in LoadTypes }

DeflectionCalls ==
    { UnitCall("calculate_deflection", <<load, span, I, lt>>) :
        load \in UnitLoads, span \in UnitSpans, I \in UnitInertias, lt \in LoadTypes }

UtilizationCalls ==
    { UnitCall("calculate_stress_utilization", <<m, W, g, sf>>) :
        m \in UnitMoments, W \in UnitModuli, g \in Grades, sf \in UnitSafetyFactors }

RecommendationCalls ==
    { UnitCall("generate_recommendations", <<u, ok, d, limit>>) :
        u \in UnitUtilizations, ok \in BOOLEAN, d \in UnitDeflections, limit \in UnitLimits }

InitUnit ==
    /\ analyzer = NewBeamAnalysis
    /\ pc = "idle"
    /\ request = NoRequest
    /\ remote = NotCalled
    /\ grpc_calls = 0
    /\ beams = <<>>
    /\ beam_data = NoBeam
    /\ locals = NoLocals
    /\ outcome = NoOutcome
    /\ memo = NoMemo
    /\ unit \in MomentCalls \cup DeflectionCalls \cup UtilizationCalls \cup RecommendationCalls

\* the method returns ret to its caller
UnitReturns(fn, ret) ==
    /\ unit.fn = fn
    /\ ~unit.returned
    /\ unit' = [unit EXCEPT !.returned = TRUE, !.ret = ret]
    /\ UNCHANGED <<analyzer, pc, request, remote, grpc_calls, beams, beam_data, locals,
                   outcome, memo>>

CallCalculateMoment ==
    /\ unit.fn = "calculate_moment"
    /\ UnitReturns("calculate_moment",
                   CalculateMoment(unit.args[1], unit.args[2], unit.args[3]))

CallCalculateDeflection ==
    /\ unit.fn = "calculate_deflection"
    /\ UnitReturns("calculate_deflection",
                   CalculateDeflection(analyzer, unit.args[1], unit.args[2], unit.args[3],
                                       unit.args[4]))

CallCalculateStressUtilization ==
    /\ unit.fn = "calculate_stress_utilization"
    /\ UnitReturns("calculate_stress_utilization",
                   CalculateStressUtilization(analyzer, unit.args[1], unit.args[2],
                                              unit.args[3], unit.args[4]))

CallGenerateRecommendations ==
    /\ unit.fn = "generate_recommendations"
    /\ UnitReturns("generate_recommendations",
                   Ok(GenerateRecommendations(unit.args[1], unit.args[2], unit.args[3],
                                              unit.args[4])))

NextUnit ==
    \/ CallCalculateMoment
    \/ CallCalculateDeflection
    \/ CallCalculateStressUtilization
    \/ CallGenerateRecommendations

SpecUnit == InitUnit /\ [][NextUnit]_vars

(***************************************************************************)
(* Properties                                                              *)
(***************************************************************************)
Done == pc = "done"

\* the catalog was fetched in this call
Fetched == remote.kind \in ReplyKinds

SearchCall == ~Truthy(request.beam_designation)

\* the failure kind of the spec an HTTPException stands for
FailureKind(o) ==
    IF o.returned THEN "none"
    ELSE IF o.error.status = 404 THEN "NotFound"
    ELSE IF o.error.status = 400 /\ o.error.prefix = "Invalid input: " THEN "InvalidInput"
    ELSE IF o.error.status = 400 /\ o.error.msg = "No suitable beam found for the given loading"
    THEN "NoSuitableOption"
    ELSE "InternalError"

\* section b has utilization <= 1.0 and deflection <= span*1000/250 for the scenario
WithinLimits(b, req) ==
    LET m == CalculateMoment(req.applied_load, req.span_length, req.load_type)
        u == CalculateStressUtilization(analyzer, m.val, b.elastic_modulus_axis_y,
                                        req.material_grade, req.safety_factor)
        d == CalculateDeflection(analyzer, req.applied_load, req.span_length,
                                 b.second_moment_of_area_axis_y, req.load_type)
    IN  /\ m.exc = NoExc
        /\ u.exc = NoExc
        /\ d.exc = NoExc
        /\ Leq(u.val, Num(1))
        /\ Leq(d.val, DeflectionLimit(req.span_length))

\* for each section of the catalog of the call, whether it is within both limits
Suitable == [i \in DOMAIN beams |-> WithinLimits(beams[i], request)]

\* utilization and deflection of section b can be computed
Evaluable(b) ==
    /\ IsNum(b.elastic_modulus_axis_y)
    /\ b.elastic_modulus_axis_y.n # 0
    /\ IsNum(b.second_moment_of_area_axis_y)
    /\ b.second_moment_of_area_axis_y.n > 0

\* C1: when the search of a call without target designation returns a section,
\* the section is one of the catalog, has utilization <= 1.0 and deflection <=
\* span*1000/250, and no section of the catalog within both limits is lighter
C1_OptimalWithinLimitsAndLightest ==
    (Done /\ SearchCall /\ beam_data # NoBeam) =>
        LET ok == Suitable
        IN  /\ \E i \in DOMAIN beams : beams[i] = beam_data /\ ok[i]
            /\ \A i \in DOMAIN beams :
                   ok[i] => ~Less(beams[i].mass_per_metre, beam_data.mass_per_metre)

\* C1 witness: the search passed over a heavier section within both limits that
\* comes first in the catalog
C1_Witness ==
    /\ Done /\ SearchCall /\ outcome.returned
    /\ Len(beams) >= 2
    /\ WithinLimits(beams[1], request)
    /\ Less(beam_data.mass_per_metre, beams[1].mass_per_metre)

NoneWithinLimits == LET ok == Suitable IN \A i \in DOMAIN beams : ~ok[i]

C3_Original ==
    (Done /\ outcome.returned) =>
        (outcome.result.is_adequate <=>
            /\ Leq(outcome.result.stress_utilization, Num(1))
            /\ Leq(outcome.result.max_deflection, DeflectionLimit(request.span_length)))

\* C3 amended: is_adequate iff the utilization and the deflection as computed,
\* before they are rounded into the result, are within their limits
C3_AdequateIffWithinLimits ==
    (Done /\ outcome.returned) =>
        (outcome.result.is_adequate <=>
            /\ Leq(locals.stress_utilization, Num(1))
            /\ Leq(locals.max_deflection, DeflectionLimit(request.span_length)))

\* C3 witness: a result that is not adequate by its utilization alone
C3_Witness ==
    /\ Done /\ outcome.returned
    /\ ~outcome.result.is_adequate
    /\ outcome.result.deflection_limit_check
    /\ Less(Num(1), locals.stress_utilization)

\* the messages of the fields of the request that violate their constraint
ViolatedFields(req) ==
    (IF Leq(req.applied_load, Num(0)) THEN {"Applied load must be greater than 0"} ELSE {})
    \cup (IF Leq(req.span_length, Num(0)) THEN {"Span length must be greater than 0"} ELSE {})
    \cup (IF Leq(req.safety_factor, Num(0)) THEN {"Safety factor must be greater than 0"} ELSE {})

\* C4: a call whose load, span or safety factor is <= 0 fails with InvalidInput,
\* the message naming a violated field, and returns no result
C4_InvalidInput ==
    (Done /\ ViolatedFields(request) # {}) =>
        /\ ~outcome.returned
        /\ outcome.result = NoResult
        /\ FailureKind(outcome) = "InvalidInput"
        /\ outcome.error.msg \in ViolatedFields(request)

\* C4 witness: a call whose only violation is the safety factor has failed
C4_Witness ==
    /\ Done
    /\ ViolatedFields(request) = {"Safety factor must be greater than 0"}
    /\ ~outcome.returned

Matches(bs, designation) == {i \in DOMAIN bs : bs[i].section_designation = designation}

\* C5: with a designation set, the call resolves a section of the fetched
\* catalog with exactly that designation, and fails with 404 (a status no other
\* failure has) exactly when the fetched catalog has none
C5_ByDesignation ==
    /\ (Done /\ Fetched /\ Truthy(request.beam_designation)) =>
           IF Matches(beams, request.beam_designation) = {}
           THEN ~outcome.returned /\ FailureKind(outcome) = "NotFound" /\ beam_data = NoBeam
           ELSE /\ beam_data.section_designation = request.beam_designation
                /\ \E i \in Matches(beams, request.beam_designation) : beams[i] = beam_data
                /\ FailureKind(outcome) # "NotFound"
    /\ (Done /\ FailureKind(outcome) = "NotFound") =>
           (Fetched /\ Truthy(request.beam_designation)
            /\ Matches(beams, request.beam_designation) = {})

\* C5 witness: a call for a designation the fetched catalog lacks has failed
C5_Witness ==
    /\ Done /\ Fetched /\ beams # <<>>
    /\ Truthy(request.beam_designation)
    /\ FailureKind(outcome) = "NotFound"

\* the remote call failed: in transport, or in the validation of what it returned
RemoteFailed(reply) ==
    \/ reply.kind \in {"rpc_error", "connect_error", "not_list"}
    \/ reply.kind = "ok" /\ \E i \in DOMAIN reply.data : reply.data[i].section_designation = NoKey

\* C6: when the remote call fails, the call works on the embedded table, which
\* has a section, and ends as it does when the remote source returns that table
C6_FallbackAbsorbsFailure ==
    (Done /\ RemoteFailed(remote)) =>
        /\ beams = EmbeddedBeamData
        /\ Len(beams) >= 1
        /\ outcome = RunAnalysis(analyzer, request, Reply("ok", EmbeddedBeamData)).outcome

\* C6 witness: a call whose remote call raised has returned a result
C6_Witness == Done /\ remote.kind = "rpc_error" /\ outcome.returned

\* C7 as stated: a call waiting for the catalog can always go on (the remote
\* source answers or the wait times out)
C7_FetchCompletes == (pc = "fetching") => ENABLED Next

\* C8: a call queries the remote catalog at most once, and exactly once when
\* it got past validation, whether the query failed or not
C8_AtMostOneQuery ==
    /\ grpc_calls <= 1
    /\ (Done /\ Fetched) => grpc_calls = 1

\* C8 witness: a call whose query failed has ended with one query made
C8_Witness == Done /\ remote.kind = "rpc_error" /\ grpc_calls = 1

R10 == Request("UB406x178x74", Num(10), Num(6), "uniform", Dec(16, -1), "S355")

\* the call of C10 has resolved the section with I_y = 27400 and W_y = 1330
C10_Case ==
    /\ Done /\ request = R10 /\ beam_data # NoBeam
    /\ IsNum(beam_data.second_moment_of_area_axis_y)
    /\ Eq(beam_data.second_moment_of_area_axis_y, Num(27400))
    /\ IsNum(beam_data.elastic_modulus_axis_y)
    /\ Eq(beam_data.elastic_modulus_axis_y, Num(1330))

CriticalStressText ==
    "CRITICAL: Stress utilization ({:.2f}) exceeds limit. Consider larger beam section."

HighStressText == "HIGH: Stress utilization ({:.2f}) is high. Consider reviewing design."

LowStressText ==
    "LOW: Stress utilization ({:.2f}) is low. Consider smaller section for economy."

HighDeflectionText == "HIGH: Deflection approaches serviceability limit."

\* the positions of the messages of a sequence with the given text
Having(msgs, text) == {i \in DOMAIN msgs : msgs[i].text = text}

\* a call of fn on its own has returned
UnitDone(fn) == unit.fn = fn /\ unit.returned

\* generate_recommendations has returned for a utilization over 1.0 with deflection_ok
C11_Case ==
    /\ UnitDone("generate_recommendations")
    /\ Less(Num(1), unit.args[1])
    /\ unit.args[2]

\* C11 as stated: for a utilization > 1.0 with deflectionOk, whatever the actual
\* deflection and the limit, the recommendations are exactly the one CRITICAL
\* stress message, and no PASS message
C11_Original ==
    C11_Case =>
        /\ Len(unit.ret.val) = 1
        /\ unit.ret.val[1].text = CriticalStressText
        /\ Having(unit.ret.val, PassMessage.text) = {}

\* C11 amended: for a utilization > 1.0 with deflectionOk the recommendations
\* start with the CRITICAL stress message and hold no PASS message; they are that
\* one message when the actual deflection is <= 0.8 * limit, and that message
\* followed by the HIGH deflection message when it is above
C11_CriticalAndNoPass ==
    C11_Case =>
        /\ Len(unit.ret.val) >= 1
        /\ unit.ret.val[1].text = CriticalStressText
        /\ Having(unit.ret.val, PassMessage.text) = {}
        /\ IF Less(Mul(unit.args[4], Dec(8, -1)), unit.args[3])
           THEN Len(unit.ret.val) = 2 /\ unit.ret.val[2].text = HighDeflectionText
           ELSE Len(unit.ret.val) = 1

\* C11 witness: utilization 1.05 with deflectionOk and a deflection well under the limit
C11_Witness ==
    /\ C11_Case
    /\ Eq(unit.args[1], Dec(105, -2))
    /\ Leq(unit.args[3], Mul(unit.args[4], Dec(8, -1)))
    /\ Len(unit.ret.val) = 1

\* C12: the recommendations hold at most one of the three utilization messages:
\* CRITICAL iff utilization > 1.0, HIGH iff 0.9 < utilization <= 1.0, LOW iff
\* utilization < 0.5, and none iff 0.5 <= utilization <= 0.9
C12_OneUtilizationMessage ==
    UnitDone("generate_recommendations") =>
        LET u == unit.args[1]
            critical == Having(unit.ret.val, CriticalStressText)
            high == Having(unit.ret.val, HighStressText)
            low == Having(unit.ret.val, LowStressText)
        IN  /\ Cardinality(critical \cup high \cup low) <= 1
            /\ (critical # {}) <=> Less(Num(1), u)
            /\ (high # {}) <=> (Less(Dec(9, -1), u) /\ Leq(u, Num(1)))
            /\ (low # {}) <=> Less(u, Dec(5, -1))
            /\ (critical \cup high \cup low = {}) <=>
                   (Leq(Dec(5, -1), u) /\ Leq(u, Dec(9, -1)))

\* C12 witness: at utilization 0.9 itself no utilization message is given
C12_Witness ==
    /\ UnitDone("generate_recommendations")
    /\ Eq(unit.args[1], Dec(9, -1))
    /\ Having(unit.ret.val, HighStressText) = {}
    /\ Having(unit.ret.val, LowStressText) = {}

\* the resolved section lacks, or has null for, a property the analysis requires
LacksRequired(b) ==
    \/ ~IsNum(b.second_moment_of_area_axis_y)
    \/ ~IsNum(b.elastic_modulus_axis_y)
    \/ b.section_designation = NoKey

C14_Case ==
    /\ UnitDone("calculate_deflection")
    /\ Less(Num(0), unit.args[1])
    /\ Less(Num(0), unit.args[2])
    /\ Less(Num(0), unit.args[3])

\* C14 as stated: for positive load, span and I the deflection is, for uniform,
\* 5 w L^4 / (384 E I_mm4) with w the load in kN/m taken to N/mm (the same
\* number), L = span * 1000, I_mm4 = I * 10000, E = 210000, and for point
\* P L^3 / (48 E I_mm4) with P = load * 1000; it is never negative
C14_DeflectionFormula ==
    C14_Case =>
        LET load == unit.args[1]
            L == Mul(unit.args[2], Num(1000))
            EI == Mul(Num(210000), Mul(unit.args[3], Num(10000)))
        IN  /\ unit.ret.exc = NoExc
            /\ Leq(Num(0), unit.ret.val)
            /\ unit.args[4] = "uniform" =>
                   Eq(unit.ret.val,
                      Div(Mul(Mul(Num(5), load), Power(L, 4)), Mul(Num(384), EI)))
            /\ unit.args[4] = "point" =>
                   Eq(unit.ret.val,
                      Div(Mul(Mul(load, Num(1000)), Power(L, 3)), Mul(Num(48), EI)))

\* the factors the arguments of calculate_stress_utilization are scaled by
Scales == {Dec(5, -1), Num(2), Num(3)}

\* calculate_stress_utilization has returned a value
C15_Case ==
    /\ UnitDone("calculate_stress_utilization")
    /\ unit.ret.exc = NoExc

\* the utilization of the call with its moment, modulus and safety factor scaled
Scaled(km, kW, ksf) ==
    CalculateStressUtilization(analyzer, Mul(km, unit.args[1]), Mul(kW, unit.args[2]),
                               unit.args[3], Mul(ksf, unit.args[4])).val

\* C15 as stated: multiplying the moment by k multiplies the utilization by k;
\* multiplying the elastic modulus by k divides it by k; multiplying the safety
\* factor by k divides it by k
C15_Original ==
    C15_Case =>
        \A k \in Scales :
            /\ Eq(Scaled(k, Num(1), Num(1)), Mul(k, unit.ret.val))
            /\ Eq(Scaled(Num(1), k, Num(1)), Div(unit.ret.val, k))
            /\ Eq(Scaled(Num(1), Num(1), k), Div(unit.ret.val, k))

\* C15 amended: multiplying the moment by k multiplies the utilization by k;
\* multiplying the elastic modulus by k divides it by k; multiplying the safety
\* factor by k multiplies it by k
C15_Proportional ==
    C15_Case =>
        \A k \in Scales :
            /\ Eq(Scaled(k, Num(1), Num(1)), Mul(k, unit.ret.val))
            /\ Eq(Scaled(Num(1), k, Num(1)), Div(unit.ret.val, k))
            /\ Eq(Scaled(Num(1), Num(1), k), Mul(k, unit.ret.val))

\* C15 witness: the utilization of 45 kNm on W_y = 1330 at safety factor 1.6 has
\* been computed, and is less than the one at safety factor 3.2
C15_Witness ==
    /\ C15_Case
    /\ Eq(unit.args[1], Num(45)) /\ Eq(unit.args[2], Num(1330))
    /\ Eq(unit.args[4], Dec(16, -1))
    /\ Less(unit.ret.val, Scaled(Num(1), Num(1), Num(2)))

\* C16: for positive load and span calculate_moment returns load * span^2 / 8 for
\* uniform and load * span / 4 for point; for load <= 0 or span <= 0 it raises
\* the ValueError reported as InvalidInput and returns no value
C16_Moment ==
    UnitDone("calculate_moment") =>
        LET load == unit.args[1]
            span == unit.args[2]
        IN  IF Less(Num(0), load) /\ Less(Num(0), span)
            THEN /\ unit.ret.exc = NoExc
                 /\ unit.args[3] = "uniform" =>
                        Eq(Mul(unit.ret.val, Num(8)), Mul(load, Mul(span, span)))
                 /\ unit.args[3] = "point" =>
                        Eq(Mul(unit.ret.val, Num(4)), Mul(load, span))
            ELSE /\ unit.ret.exc.type = "ValueError"
                 /\ HandleException(unit.ret.exc).status = 400
                 /\ HandleException(unit.ret.exc).prefix = "Invalid input: "

\* C16 witness: a call with a positive load and a negative span has raised
C16_Witness ==
    /\ UnitDone("calculate_moment")
    /\ Less(Num(0), unit.args[1])
    /\ Less(unit.args[2], Num(0))
    /\ unit.ret.exc # NoExc

\* the positions in the catalog of the sections within both limits that no
\* section within both limits is lighter than
Lightest ==
    LET ok == Suitable
    IN  {i \in DOMAIN beams :
            /\ ok[i]
            /\ \A j \in DOMAIN beams :
                   ok[j] => ~Less(beams[j].mass_per_metre, beams[i].mass_per_metre)}

\* C17: when the search returns a section, it is the first in catalog order of
\* the suitable sections of lowest mass per metre
C17_FirstOfLightest ==
    (Done /\ SearchCall /\ beam_data # NoBeam) =>
        LET lightest == Lightest
        IN  /\ lightest # {}
            /\ \E i \in lightest :
                   /\ \A j \in lightest : i <= j
                   /\ beam_data = beams[i]

\* C17 witness: two different sections share the lowest mass, and the search returned
C17_Witness ==
    /\ Done /\ SearchCall /\ outcome.returned
    /\ LET lightest == Lightest
       IN  Cardinality(lightest) >= 2 /\ \E i, j \in lightest : beams[i] # beams[j]

AsUniform == [request EXCEPT !.load_type = "uniform"]

\* C19: a call with load type 'distributed' (the else branch every load type
\* other than uniform and point takes) ends as the same call with load type
\* uniform does on the same catalog reply: the same failure, or the same section,
\* moment, shear, deflection, utilization, flags and recommendations
C19_DistributedIsUniform ==
    (Done /\ request.load_type \notin {"uniform", "point"}) =>
        IF Fetched
        THEN LET uniform == RunAnalysis(analyzer, AsUniform, remote)
             IN  outcome = uniform.outcome /\ beam_data = uniform.beam_data
        ELSE /\ ValidateRequest(AsUniform) # NoExc
             /\ outcome = Failed(ValidateRequest(AsUniform))

\* C19 witness: a call with load type distributed has returned a result
C19_Witness ==
    /\ Done /\ request.load_type = "distributed"
    /\ outcome.returned

CriticalDeflectionText == "CRITICAL: Deflection ({:.1f}mm) exceeds limit ({:.1f}mm)."

\* C20: a call without target designation that returns a result returns one with
\* deflection_limit_check and is_adequate true, whose recommendations hold the
\* PASS message and no CRITICAL message
C20_SearchResultPasses ==
    (Done /\ SearchCall /\ outcome.returned) =>
        /\ outcome.result.deflection_limit_check
        /\ outcome.result.is_adequate
        /\ Having(outcome.result.recommendations, PassMessage.text) # {}
        /\ Having(outcome.result.recommendations, CriticalStressText) = {}
        /\ Having(outcome.result.recommendations, CriticalDeflectionText) = {}

\* C20 witness: the search passed over a section that is not within the limits
\* and the call returned a result
C20_Witness ==
    /\ Done /\ SearchCall /\ outcome.returned
    /\ \E i \in DOMAIN beams : Evaluable(beams[i]) /\ ~WithinLimits(beams[i], request)

UtilizationTexts == {CriticalStressText, HighStressText, LowStressText}

DeflectionTexts == {CriticalDeflectionText, HighDeflectionText}

\* C21: in every result the recommendations are not empty, hold the PASS message
\* iff is_adequate, hold a CRITICAL message iff not is_adequate, and list any
\* utilization message before any deflection message before the PASS message
C21_Recommendations ==
    (Done /\ outcome.returned) =>
        LET recs == outcome.result.recommendations
            utilization == {i \in DOMAIN recs : recs[i].text \in UtilizationTexts}
            deflection == {i \in DOMAIN recs : recs[i].text \in DeflectionTexts}
            pass == Having(recs, PassMessage.text)
            critical == Having(recs, CriticalStressText)
                            \cup Having(recs, CriticalDeflectionText)
        IN  /\ recs # <<>>
            /\ utilization \cup deflection \cup pass = DOMAIN recs
            /\ (pass # {}) <=> outcome.result.is_adequate
            /\ (critical # {}) <=> ~outcome.result.is_adequate
            /\ \A i \in utilization : \A j \in deflection \cup pass : i < j
            /\ \A i \in deflection : \A j \in pass : i < j

\* C21 witness: a result with a utilization message, a deflection message and PASS
C21_Witness ==
    /\ Done /\ outcome.returned
    /\ Len(outcome.result.recommendations) = 3
    /\ Having(outcome.result.recommendations, HighDeflectionText) # {}
    /\ outcome.result.is_adequate

\* C22: a call whose load, span or safety factor is <= 0 never waits for the
\* catalog, and ends without the catalog provider having been called: no remote
\* query, no catalog (fetched or embedded) and no section in the call
C22_ValidationPrecedesFetch ==
    /\ (pc = "fetching") => ViolatedFields(request) = {}
    /\ (Done /\ ViolatedFields(request) # {}) =>
           /\ grpc_calls = 0
           /\ remote = NotCalled
           /\ beams = <<>>
           /\ beam_data = NoBeam

\* C22 witness: a call with load 0 and a designation has failed, nothing fetched
C22_Witness ==
    /\ Done
    /\ Leq(request.applied_load, Num(0))
    /\ Truthy(request.beam_designation)
    /\ ~outcome.returned
    /\ grpc_calls = 0

\* the positions of the candidates whose second moment of area is a number <= 0
NonPositiveI ==
    {i \in DOMAIN beams :
        /\ IsNum(beams[i].second_moment_of_area_axis_y)
        /\ Leq(beams[i].second_moment_of_area_axis_y, Num(0))}

\* the positions of the candidates whose utilization or deflection cannot be computed
NotEvaluable == {i \in DOMAIN beams : ~Evaluable(beams[i])}

\* a search call has ended on a fetched catalog with a candidate of non-positive I
C23_Case == Done /\ SearchCall /\ Fetched /\ NonPositiveI # {}

\* C23 as stated: a candidate with a non-positive second moment of area makes
\* the whole search fail with an InvalidInput failure, whatever else the catalog
\* holds, and the search returns a section only when every candidate could be
\* evaluated
C23_Original ==
    /\ C23_Case => (~outcome.returned /\ FailureKind(outcome) = "InvalidInput")
    /\ (Done /\ SearchCall /\ beam_data # NoBeam) => NotEvaluable = {}

\* C23 amended: a candidate with a non-positive second moment of area makes the
\* whole search fail, with no section resolved and not as NoSuitableOption; the
\* failure is InvalidInput when that candidate is the first of the catalog that
\* cannot be evaluated and its elastic modulus is a number other than 0, and an
\* internal error (status 500) otherwise; the search returns a section only when
\* every candidate could be evaluated
C23_NonPositiveIFailsSearch ==
    /\ C23_Case =>
           /\ ~outcome.returned
           /\ beam_data = NoBeam
           /\ FailureKind(outcome) \in {"InvalidInput", "InternalError"}
           /\ FailureKind(outcome) = "InvalidInput" <=>
                  \E i \in NonPositiveI :
                      /\ \A j \in NotEvaluable : i <= j
                      /\ IsNum(beams[i].elastic_modulus_axis_y)
                      /\ beams[i].elastic_modulus_axis_y.n # 0
    /\ (Done /\ SearchCall /\ beam_data # NoBeam) => NotEvaluable = {}

\* C23 witness: a catalog with a suitable section first and a section with I = 0
\* after it has made the search fail with InvalidInput
C23_Witness ==
    /\ C23_Case
    /\ Len(beams) >= 2
    /\ WithinLimits(beams[1], request)
    /\ FailureKind(outcome) = "InvalidInput"

====
